---- MODULE Spec2Model ----
(***************************************************************************)
(* Model of scripts/download_features.py: the sequential pipeline of main  *)
(* (history -> unique queries -> ids -> metadata rows / feature rows ->    *)
(* three CSV files) and of the three fetch functions get_id,               *)
(* get_track_data and get_track_audio_features.  The upstream API is the   *)
(* environment: every request is answered by a response drawn from a small *)
(* set (a transport exception, an HTTP status, a JSON body).               *)
(***************************************************************************)
EXTENDS Integers, Sequences, FiniteSets, TLC

VARIABLES
    history,               \* the records of the streaming-history JSON file
    df,                    \* main's DataFrame `df`, a sequence of rows
    unique_tracks,         \* main's `unique_tracks`
    id_map,                \* main's `id_map`
    todo,                  \* the part of the running loop still to iterate
    tracks_data,           \* main's `tracks_data`
    tracks_features_data,  \* main's `tracks_features_data`
    files,                 \* the files under data/, NotWritten until to_csv
    reqlog,                \* every request issued, with how it ended
    last_track_data,       \* `track_data` of the latest get_track_data call
    stdout,                \* what print() has emitted
    pc,                    \* position of main
    err                    \* the exception that ended main, or "none"

vars == <<history, df, unique_tracks, id_map, todo, tracks_data,
          tracks_features_data, files, reqlog, last_track_data, stdout, pc, err>>

----------------------------------------------------------------------------
(* Bounds of the model.                                                    *)

MaxRecords == 2     \* longest history
MaxItems == 2       \* longest list of search results
MaxArtists == 2     \* longest artist list of a metadata response

(* Constants of the program.                                               *)

HoursOffset == 3          \* pd.offsets.DateOffset(hours=3)
StatusUnavailable == 503  \* the status get_track_audio_features special-cases
StatusOK == 200
HoursPerDay == 24

None == "None"            \* Python's None, distinct from every string used
NotWritten == [written |-> FALSE, rows |-> <<>>]

\* DataFrame.to_csv
to_csv(frame) == [written |-> TRUE, rows |-> frame]

SeqsUpTo(S, n) == UNION {[1..k -> S] : k \in 0..n}

----------------------------------------------------------------------------
(* Inputs: the history file.  Names are sequences of characters, so that   *)
(* artistName + ' ' + trackName is a real concatenation: the pairs         *)
(* ("a b", "c") and ("a", "b c") give the same query.                      *)

ArtistNames == {<<"a">>, <<"a", " ", "b">>}
TrackNames == {<<"c">>, <<"b", " ", "c">>}
EndTimes == {[day |-> 1, hour |-> 10], [day |-> 1, hour |-> 22]}

Records == [artistName : ArtistNames, trackName : TrackNames, endTime : EndTimes]

Histories == SeqsUpTo(Records, MaxRecords)

----------------------------------------------------------------------------
(* The upstream API's answers.                                             *)

TrackIds == {"t1", "t2"}

NoBody == [empty |-> TRUE]

Response(exc, status_code, json) ==
    [exc |-> exc, status_code |-> status_code, json |-> json]

TransportFailures == {"Timeout", "ConnectionError"}
ErrorStatuses == {404, StatusUnavailable}

FailedResponses ==
    {Response(e, 0, NoBody) : e \in TransportFailures}
        \cup {Response("none", c, NoBody) : c \in ErrorStatuses}

SearchResponses ==
    {Response("none", StatusOK, [tracks |-> [items |-> s]]) :
        s \in SeqsUpTo([id : TrackIds], MaxItems)}
        \cup FailedResponses

\* the artists a track may have, in the order the API lists them
ArtistObjects ==
    <<[id |-> "A1", name |-> "Artist One", type |-> "artist"],
      [id |-> "A2", name |-> "Artist Two", type |-> "group"],
      [id |-> "A3", name |-> "Artist Three", type |-> "artist"]>>

TrackObject(artists) ==
    [album |-> [type |-> "album", id |-> "AL1", name |-> "Album One",
                release_date |-> "2020-01-01"],
     artists |-> artists,
     duration_ms |-> 210000,
     is_local |-> FALSE,
     name |-> "Song",
     popularity |-> 42,
     type |-> "track"]

TrackResponses ==
    {Response("none", StatusOK, TrackObject(SubSeq(ArtistObjects, 1, k))) :
        k \in 0..MaxArtists}
        \cup FailedResponses

AudioFeaturesObject(track_id) ==
    [danceability |-> 1, energy |-> 2, key |-> 3, loudness |-> 4, mode |-> 5,
     speechiness |-> 6, acousticness |-> 7, instrumentalness |-> 8,
     liveness |-> 9, valence |-> 10, tempo |-> 11, time_signature |-> 12,
     id |-> track_id, uri |-> "spotify:track", analysis_url |-> "url"]

FeaturesResponses(track_id) ==
    {Response("none", StatusOK, AudioFeaturesObject(track_id))}
        \cup FailedResponses

----------------------------------------------------------------------------
(* Helpers standing for Python and pandas primitives.                      *)

\* how a call ends: is_none tells `return None` from the other returns
Return(v) == [raised |-> "none", is_none |-> FALSE, value |-> v]
ReturnNone == [raised |-> "none", is_none |-> TRUE, value |-> None]
Raise(e) == [raised |-> e, is_none |-> FALSE, value |-> None]

\* requests.Response.raise_for_status: HTTPError for a 4xx or 5xx status
raise_for_status(resp) ==
    resp.status_code >= 400 /\ resp.status_code < 600

\* a loop over the values themselves, duplicates included
Unique_keep_duplicates(s) == s

\* Series.unique(): the distinct values in order of first appearance
\* (None is a value like any other)
Unique(s) ==
    LET first == {i \in 1..Len(s) : \A j \in 1..(i - 1) : s[j] # s[i]}
        upto[k \in 0..Len(s)] ==
            IF k = 0 THEN <<>>
            ELSE IF k \in first THEN Append(upto[k - 1], s[k])
            ELSE upto[k - 1]
    IN upto[Len(s)]

Column(frame, c) == [i \in 1..Len(frame) |-> frame[i][c]]

\* pd.Timestamp(endTime) as hours since day 0
Timestamp(endTime) == endTime.day * HoursPerDay + endTime.hour

\* the timestamps as parsed, the offset forgotten
ShiftEndTime_no_offset(endTime) == Timestamp(endTime)

\* line 121: df.endTime.apply(pd.Timestamp) + pd.offsets.DateOffset(hours=3)
ShiftEndTime(endTime) == Timestamp(endTime) + HoursOffset

\* line 143: row.artistName + ' ' + row.trackName
Query(row) == row.artistName \o <<" ">> \o row.trackName

----------------------------------------------------------------------------
(* The three fetch functions, as functions of the response to their  *)
(* one request.                                                            *)

\* get_id without its except clause: the timeout propagates
get_id_no_except(q, resp) ==
    IF resp.exc # "none" THEN Raise(resp.exc) @@ [printed |-> <<>>]
    ELSE IF raise_for_status(resp) THEN Raise("HTTPError") @@ [printed |-> <<>>]
    ELSE IF Len(resp.json.tracks.items) = 0
         THEN ReturnNone @@ [printed |-> <<q>>]
    ELSE Return(resp.json.tracks.items[1].id) @@ [printed |-> <<>>]

\* get_id, lines 42-58; printed is what print(q) emits
get_id(q, resp) ==
    IF resp.exc = "Timeout" THEN ReturnNone @@ [printed |-> <<>>]
    ELSE IF resp.exc # "none" THEN Raise(resp.exc) @@ [printed |-> <<>>]
    ELSE IF raise_for_status(resp) THEN Raise("HTTPError") @@ [printed |-> <<>>]
    ELSE IF Len(resp.json.tracks.items) = 0
         THEN ReturnNone @@ [printed |-> <<q>>]
    ELSE Return(resp.json.tracks.items[1].id) @@ [printed |-> <<>>]

\* the projection with artist2_name defaulted to the empty string
selected_data_empty_name(track_data) ==
    [album_type |-> track_data.album.type,
     album_id |-> track_data.album.id,
     album_name |-> track_data.album.name,
     album_release_date |-> track_data.album.release_date,
     artist1_id |-> track_data.artists[1].id,
     artist1_name |-> track_data.artists[1].name,
     artist1_type |-> track_data.artists[1].type,
     artist2_id |-> IF Len(track_data.artists) < 2 THEN None
                    ELSE track_data.artists[2].id,
     artist2_name |-> IF Len(track_data.artists) < 2 THEN ""
                      ELSE track_data.artists[2].name,
     artist2_type |-> IF Len(track_data.artists) < 2 THEN None
                      ELSE track_data.artists[2].type,
     duration_ms |-> track_data.duration_ms,
     is_local |-> track_data.is_local,
     name |-> track_data.name,
     popularity |-> track_data.popularity,
     type |-> track_data.type]

\* lines 73-90: the projection of the track object
selected_data(track_data) ==
    [album_type |-> track_data.album.type,
     album_id |-> track_data.album.id,
     album_name |-> track_data.album.name,
     album_release_date |-> track_data.album.release_date,
     artist1_id |-> track_data.artists[1].id,
     artist1_name |-> track_data.artists[1].name,
     artist1_type |-> track_data.artists[1].type,
     artist2_id |-> IF Len(track_data.artists) < 2 THEN None
                    ELSE track_data.artists[2].id,
     artist2_name |-> IF Len(track_data.artists) < 2 THEN None
                      ELSE track_data.artists[2].name,
     artist2_type |-> IF Len(track_data.artists) < 2 THEN None
                      ELSE track_data.artists[2].type,
     duration_ms |-> track_data.duration_ms,
     is_local |-> track_data.is_local,
     name |-> track_data.name,
     popularity |-> track_data.popularity,
     type |-> track_data.type]

\* get_track_data, lines 68-90; no timeout and no except clause
get_track_data(track_id, resp) ==
    IF resp.exc # "none" THEN Raise(resp.exc)
    ELSE IF raise_for_status(resp) THEN Raise("HTTPError")
    ELSE IF Len(resp.json.artists) = 0 THEN Raise("IndexError")
    ELSE Return(selected_data(resp.json))

\* get_track_audio_features, lines 101-113; no except clause
get_track_audio_features(track_id, resp) ==
    IF resp.exc # "none" THEN Raise(resp.exc)
    ELSE IF resp.status_code = StatusUnavailable THEN ReturnNone
    ELSE IF raise_for_status(resp) THEN Raise("HTTPError")
    ELSE Return(resp.json)

----------------------------------------------------------------------------
(* main.                                                                   *)

Init ==
    /\ history \in Histories
    /\ df = <<>>
    /\ unique_tracks = <<>>
    /\ id_map = <<>>
    /\ todo = <<>>
    /\ tracks_data = <<>>
    /\ tracks_features_data = <<>>
    /\ files = [f \in {"tracks.csv", "features.csv", "streaming_history.csv"}
                    |-> NotWritten]
    /\ reqlog = <<>>
    /\ last_track_data = NoBody
    /\ stdout = <<>>
    /\ pc = "load"
    /\ err = "none"

Fail(e) == pc' = "failed" /\ err' = e

\* requests.get: the request goes out and resp is what came back;
\* raised and returned_none tell how the fetch function then ended
Request(url, arg, resp, r) ==
    reqlog' = Append(reqlog, [url |-> url, arg |-> arg, exc |-> resp.exc,
                              status_code |-> resp.status_code,
                              raised |-> r.raised,
                              returned_none |-> r.is_none])

\* lines 118-121: load the history and shift endTime; a DataFrame built
\* from an empty list has no endTime column
LoadHistory ==
    /\ pc = "load"
    /\ IF history = <<>>
       THEN /\ Fail("AttributeError")
            /\ UNCHANGED df
       ELSE /\ df' = [i \in 1..Len(history) |->
                        [history[i] EXCEPT !.endTime = ShiftEndTime(@)]]
            /\ pc' = "queries"
            /\ UNCHANGED err
    /\ UNCHANGED <<history, unique_tracks, id_map, todo, tracks_data,
                   tracks_features_data, files, reqlog, last_track_data, stdout>>

\* lines 143-145: the query column and its unique values
ComputeQueries ==
    /\ pc = "queries"
    /\ df' = [i \in 1..Len(df) |-> df[i] @@ [artist_track |-> Query(df[i])]]
    /\ unique_tracks' = Unique(Column(df', "artist_track"))
    /\ todo' = unique_tracks'
    /\ pc' = "resolve"
    /\ UNCHANGED <<history, id_map, tracks_data, tracks_features_data, files,
                   reqlog, last_track_data, stdout, err>>

\* line 146: one iteration of the dict comprehension
ResolveQuery ==
    /\ pc = "resolve"
    /\ todo # <<>>
    /\ \E resp \in SearchResponses :
        LET q == Head(todo)
            r == get_id(q, resp)
        IN /\ Request("search", q, resp, r)
           /\ stdout' = stdout \o r.printed
           /\ IF r.raised # "none"
              THEN /\ Fail(r.raised)
                   /\ UNCHANGED <<id_map, todo>>
              ELSE /\ id_map' = id_map @@ (q :> r.value)
                   /\ todo' = Tail(todo)
                   /\ UNCHANGED <<pc, err>>
    /\ UNCHANGED <<history, df, unique_tracks, tracks_data,
                   tracks_features_data, files, last_track_data>>

\* lines 149-152: annotate every row with its id, start the metadata loop
Annotate ==
    /\ pc = "resolve"
    /\ todo = <<>>
    /\ df' = [i \in 1..Len(df) |-> df[i] @@ [id_ |-> id_map[df[i].artist_track]]]
    /\ todo' = Unique(Column(df', "id_"))
    /\ pc' = "metadata"
    /\ UNCHANGED <<history, unique_tracks, id_map, tracks_data,
                   tracks_features_data, files, reqlog, last_track_data, stdout, err>>

\* the loops without their `continue`
IsNone_never(id_) == FALSE

\* lines 153-154 and 164-165
IsNone(id_) == id_ = None

\* lines 152-157: one iteration of the metadata loop
FetchTrackData ==
    /\ pc = "metadata"
    /\ todo # <<>>
    /\ LET id_ == Head(todo)
       IN IF IsNone(id_)
          THEN /\ todo' = Tail(todo)
               /\ UNCHANGED <<tracks_data, reqlog, last_track_data, pc, err>>
          ELSE \E resp \in TrackResponses :
                LET r == get_track_data(id_, resp)
                IN /\ Request("tracks", id_, resp, r)
                   /\ last_track_data' =
                        IF resp.exc = "none" /\ ~raise_for_status(resp)
                        THEN resp.json ELSE last_track_data
                   /\ IF r.raised # "none"
                      THEN /\ Fail(r.raised)
                           /\ UNCHANGED <<tracks_data, todo>>
                      ELSE /\ tracks_data' =
                                Append(tracks_data, r.value @@ [id_ |-> id_])
                           /\ todo' = Tail(todo)
                           /\ UNCHANGED <<pc, err>>
    /\ UNCHANGED <<history, df, unique_tracks, id_map, tracks_features_data,
                   files, stdout>>

\* lines 159-163: write tracks.csv, start the feature loop; an empty
\* tracks_df has no id_ column
WriteTracks ==
    /\ pc = "metadata"
    /\ todo = <<>>
    /\ files' = [files EXCEPT !["tracks.csv"] = to_csv(tracks_data)]
    /\ IF tracks_data = <<>>
       THEN /\ Fail("AttributeError")
            /\ UNCHANGED todo
       ELSE /\ todo' = Unique(Column(tracks_data, "id_"))
            /\ pc' = "features"
            /\ UNCHANGED err
    /\ UNCHANGED <<history, df, unique_tracks, id_map, tracks_data,
                   tracks_features_data, reqlog, last_track_data, stdout>>

\* lines 163-170: one iteration of the feature loop
FetchAudioFeatures ==
    /\ pc = "features"
    /\ todo # <<>>
    /\ LET id_ == Head(todo)
       IN IF IsNone(id_)
          THEN /\ todo' = Tail(todo)
               /\ UNCHANGED <<tracks_features_data, reqlog, pc, err>>
          ELSE \E resp \in FeaturesResponses(id_) :
                LET r == get_track_audio_features(id_, resp)
                IN /\ Request("audio-features", id_, resp, r)
                   /\ IF r.raised # "none"
                      THEN /\ Fail(r.raised)
                           /\ UNCHANGED <<tracks_features_data, todo>>
                      ELSE /\ tracks_features_data' =
                                IF r.is_none THEN tracks_features_data
                                ELSE Append(tracks_features_data,
                                            r.value @@ [id_ |-> id_])
                           /\ todo' = Tail(todo)
                           /\ UNCHANGED <<pc, err>>
    /\ UNCHANGED <<history, df, unique_tracks, id_map, tracks_data, files,
                   last_track_data, stdout>>

\* lines 172-176
keep_features ==
    {"id_", "danceability", "energy", "key", "loudness", "mode", "speechiness",
     "acousticness", "instrumentalness", "liveness", "valence", "tempo",
     "time_signature"}

\* line 178: pd.DataFrame(tracks_features_data)[keep_features]
Project(rows) == [i \in 1..Len(rows) |-> [c \in keep_features |-> rows[i][c]]]

\* lines 178-181: project the feature rows, write features.csv and
\* streaming_history.csv; an empty frame has none of the columns
WriteOutputs ==
    /\ pc = "features"
    /\ todo = <<>>
    /\ IF tracks_features_data = <<>>
       THEN /\ Fail("KeyError")
            /\ UNCHANGED files
       ELSE /\ files' = [files EXCEPT
                            !["features.csv"] =
                                to_csv(Project(tracks_features_data)),
                            !["streaming_history.csv"] = to_csv(df)]
            /\ pc' = "done"
            /\ UNCHANGED err
    /\ UNCHANGED <<history, df, unique_tracks, id_map, todo, tracks_data,
                   tracks_features_data, reqlog, last_track_data, stdout>>

Next ==
    \/ LoadHistory
    \/ ComputeQueries
    \/ ResolveQuery
    \/ Annotate
    \/ FetchTrackData
    \/ WriteTracks
    \/ FetchAudioFeatures
    \/ WriteOutputs

Spec == Init /\ [][Next]_vars

----------------------------------------------------------------------------
(* Vocabulary of the properties.                                           *)

LogIndex == 1..Len(reqlog)

\* the number of requests to url for arg
Count(url, arg) ==
    Cardinality({i \in LogIndex : reqlog[i].url = url /\ reqlog[i].arg = arg})

LastRequest == reqlog[Len(reqlog)]

\* main ended in an exception raised inside a fetch function
FatalFetchError ==
    pc = "failed" /\ reqlog # <<>> /\ LastRequest.raised # "none"

HistoryQueries ==
    {history[i].artistName \o <<" ">> \o history[i].trackName :
        i \in 1..Len(history)}

Annotated == df # <<>> /\ "id_" \in DOMAIN df[1]

HistoryIds == IF Annotated THEN {df[i].id_ : i \in 1..Len(df)} \ {None} ELSE {}
MetadataIds == {tracks_data[i].id_ : i \in 1..Len(tracks_data)}
FeatureIds == {tracks_features_data[i].id_ : i \in 1..Len(tracks_features_data)}

----------------------------------------------------------------------------
\* C1: the search request is issued at most once per distinct query string
\* of the history, whatever the number of records sharing it, and exactly
\* once per distinct query once resolution has finished without a fatal
\* error; it is issued for no other string.
C1_SearchOncePerQuery ==
    /\ \A i \in LogIndex :
        reqlog[i].url = "search" => reqlog[i].arg \in HistoryQueries
    /\ \A q \in HistoryQueries : Count("search", q) <= 1
    /\ Annotated => \A q \in HistoryQueries : Count("search", q) = 1

\* two records built from different names share one query, resolved once
C1_Witness ==
    /\ pc = "done"
    /\ Len(history) = 2
    /\ history[1].artistName # history[2].artistName
    /\ Cardinality(HistoryQueries) = 1
    /\ Cardinality({i \in LogIndex : reqlog[i].url = "search"}) = 1

\* C2 (as claimed): a run that ends in a fatal fetch error has written none
\* of tracks.csv, features.csv and streaming_history.csv.
C2_NothingPersistedOnFatalFetch ==
    FatalFetchError => \A f \in DOMAIN files : ~files[f].written

\* C3 (as claimed): an audio-features request that times out makes
\* get_track_audio_features return None and raises nothing.
C3_FeatureTimeoutIsAbsence ==
    \A i \in LogIndex :
        (reqlog[i].url = "audio-features" /\ reqlog[i].exc = "Timeout")
            => (reqlog[i].raised = "none" /\ reqlog[i].returned_none)

\* a search answered with zero items
ZeroItems(i) ==
    /\ reqlog[i].url = "search"
    /\ reqlog[i].exc = "none"
    /\ reqlog[i].status_code = StatusOK
    /\ reqlog[i].returned_none

\* an audio-features request answered with status 503
Unavailable(i) ==
    /\ reqlog[i].url = "audio-features"
    /\ reqlog[i].exc = "none"
    /\ reqlog[i].status_code = StatusUnavailable

\* C4 (as claimed): a query with zero search results is mapped to None and
\* never aborts the run: a run with such a query (and no 503 from the
\* audio-features endpoint) ends only in "done" or in a fatal fetch error.
C4_ZeroItemsNeverAborts ==
    \A i \in LogIndex :
        ZeroItems(i) =>
            /\ id_map[reqlog[i].arg] = None
            /\ (pc = "failed" /\ \A j \in LogIndex : ~Unavailable(j))
                    => FatalFetchError

\* C5 (as claimed): a 503 from the audio-features endpoint is absence: it
\* raises nothing, the run does not end in an error without a fatal fetch
\* error, and on completion features.csv omits the id while tracks.csv
\* has it.
C5_UnavailableIsAbsence ==
    \A i \in LogIndex :
        Unavailable(i) =>
            /\ reqlog[i].raised = "none"
            /\ reqlog[i].returned_none
            /\ pc = "failed" => FatalFetchError
            /\ pc = "done" =>
                /\ \A k \in 1..Len(files["features.csv"].rows) :
                    files["features.csv"].rows[k].id_ # reqlog[i].arg
                /\ \E k \in 1..Len(files["tracks.csv"].rows) :
                    files["tracks.csv"].rows[k].id_ = reqlog[i].arg

\* C6: on a completed run streaming_history.csv has one row per input
\* record, in input order, with the record's names, its endTime three hours
\* later (across midnight too) and the id (or None) id_map gives its query.
C6_HistoryPreserved ==
    pc = "done" =>
        LET out == files["streaming_history.csv"].rows
        IN /\ files["streaming_history.csv"].written
           /\ Len(out) = Len(history)
           /\ \A i \in 1..Len(history) :
                LET later == history[i].endTime.hour + 3
                IN /\ out[i].artistName = history[i].artistName
                   /\ out[i].trackName = history[i].trackName
                   /\ out[i].endTime \div HoursPerDay =
                        history[i].endTime.day + later \div HoursPerDay
                   /\ out[i].endTime % HoursPerDay = later % HoursPerDay
                   /\ out[i].id_ =
                        id_map[history[i].artistName \o <<" ">>
                                    \o history[i].trackName]

\* an unmatched row, played at 22h, is kept in front of a matched one
C6_Witness ==
    /\ pc = "done"
    /\ Len(history) = 2
    /\ history[1].endTime.hour = 22
    /\ files["streaming_history.csv"].rows[1].id_ = None
    /\ files["streaming_history.csv"].rows[2].id_ # None

\* C7: no metadata or audio-features request is issued for None, each id is
\* requested at most once from either endpoint, the metadata requests are
\* for ids of the annotated history and the audio-features requests for ids
\* of the metadata table.
C7_FetchOncePerId ==
    /\ \A i \in LogIndex :
        /\ reqlog[i].url \in {"tracks", "audio-features"}
                => reqlog[i].arg # None
        /\ reqlog[i].url = "tracks" => reqlog[i].arg \in HistoryIds
        /\ reqlog[i].url = "audio-features" => reqlog[i].arg \in MetadataIds
    /\ \A id_ \in TrackIds :
        /\ Count("tracks", id_) <= 1
        /\ Count("audio-features", id_) <= 1

\* two distinct queries resolved to the same id, fetched once
C7_Witness ==
    /\ pc = "done"
    /\ Cardinality(HistoryQueries) = 2
    /\ Cardinality(HistoryIds) = 1
    /\ \A i \in 1..Len(df) : df[i].id_ # None
    /\ Len(reqlog) = 4

\* the search requests, which are the first of the log
SearchIndex == {i \in LogIndex : reqlog[i].url = "search"}

\* C8: a search that times out raises nothing, maps its query to None and
\* leaves the resolution running (the queries are requested in the order
\* of unique_tracks, all of them once resolution is over); a search that
\* fails in any other way ends the run there, with no further request.
C8_SearchTimeoutIsAbsence ==
    /\ \A i \in SearchIndex :
        /\ i <= Len(unique_tracks) /\ reqlog[i].arg = unique_tracks[i]
        /\ reqlog[i].exc = "Timeout" =>
            /\ reqlog[i].raised = "none"
            /\ reqlog[i].arg \in DOMAIN id_map
            /\ id_map[reqlog[i].arg] = None
            /\ i = Len(reqlog) => ~FatalFetchError
        /\ (reqlog[i].exc = "ConnectionError" \/ reqlog[i].status_code >= 400) =>
            /\ pc = "failed"
            /\ i = Len(reqlog)
            /\ reqlog[i].arg \notin DOMAIN id_map
            /\ Count("search", reqlog[i].arg) = 1
    /\ Annotated => Cardinality(SearchIndex) = Len(unique_tracks)

\* the first query timed out and the second was resolved all the same
C8_Witness ==
    /\ pc = "done"
    /\ Len(reqlog) >= 2
    /\ reqlog[1].url = "search" /\ reqlog[1].exc = "Timeout"
    /\ reqlog[2].url = "search" /\ ~reqlog[2].returned_none

\* C9: the row get_track_data returns for a metadata response has its three
\* artist2 fields all None when the artist list has fewer than two entries
\* and equal to the second entry's fields otherwise, never the empty
\* string, and its artist1 fields equal to the first entry's.
C9_SecondArtist ==
    (reqlog # <<>> /\ LastRequest.url = "tracks" /\ LastRequest.raised = "none") =>
        LET row == tracks_data[Len(tracks_data)]
            artists == last_track_data.artists
        IN /\ row.id_ = LastRequest.arg
           /\ row.artist1_id = artists[1].id
           /\ row.artist1_name = artists[1].name
           /\ row.artist1_type = artists[1].type
           /\ Len(artists) < 2 =>
                /\ row.artist2_id = None
                /\ row.artist2_name = None
                /\ row.artist2_type = None
           /\ Len(artists) >= 2 =>
                /\ row.artist2_id = artists[2].id
                /\ row.artist2_name = artists[2].name
                /\ row.artist2_type = artists[2].type
           /\ \A f \in {"artist2_id", "artist2_name", "artist2_type"} :
                row[f] # ""
           /\ Cardinality({f \in {"artist2_id", "artist2_name",
                                  "artist2_type"} : row[f] = None}) \in {0, 3}

\* a response with a single artist has just been projected
C9_Witness ==
    /\ reqlog # <<>>
    /\ LastRequest.url = "tracks"
    /\ LastRequest.raised = "none"
    /\ Len(last_track_data.artists) = 1
    /\ tracks_data[Len(tracks_data)].artist2_name = None

\* C10: at every point the feature rows' ids are among the metadata rows'
\* ids, which are among the non-None ids of the annotated history, and no
\* id has two rows in either table; on a completed run the metadata table
\* has exactly the non-None ids of the history and the feature table
\* exactly the metadata ids whose audio-features fetch did not return None,
\* and the files hold these tables.
C10_TablesKeyedById ==
    /\ FeatureIds \subseteq MetadataIds
    /\ MetadataIds \subseteq HistoryIds
    /\ Cardinality(MetadataIds) = Len(tracks_data)
    /\ Cardinality(FeatureIds) = Len(tracks_features_data)
    /\ pc = "done" =>
        /\ MetadataIds = HistoryIds
        /\ FeatureIds =
            {id_ \in MetadataIds :
                \E i \in LogIndex : /\ reqlog[i].url = "audio-features"
                                    /\ reqlog[i].arg = id_
                                    /\ ~reqlog[i].returned_none}
        /\ files["tracks.csv"] = [written |-> TRUE, rows |-> tracks_data]
        /\ files["features.csv"].written
        /\ {files["features.csv"].rows[k].id_ :
                k \in 1..Len(files["features.csv"].rows)} = FeatureIds
        /\ Len(files["features.csv"].rows) = Len(tracks_features_data)

\* two ids have metadata, one of them has no audio features
C10_Witness ==
    /\ pc = "done"
    /\ Cardinality(MetadataIds) = 2
    /\ Cardinality(FeatureIds) = 1

====
